---- MODULE Spec2Model ----
(***************************************************************************)
(* The enrollment dashboard of src/app.py: the module-level load block     *)
(* (lines 14-40) that normalizes the fetched table, and the callback       *)
(* update_dashboard (lines 130-215) that filters it and builds the KPI     *)
(* cards and the chart of the active tab.                                  *)
(*                                                                         *)
(* Numbers.  pd.to_numeric yields float64 values.  A numeric cell is held  *)
(* here in tenths (15 stands for 1.5), so that the raw texts of the inputs *)
(* (at most one fractional digit) are exact and int() is a truncation.     *)
(* The parity index is held in hundredths (92 stands for 0.92).            *)
(*                                                                         *)
(* A raw cell is the text of a JSON value as a tuple of characters         *)
(* (<<"1", ".", "5">>); a key a row does not carry reads as NaN.  A parsed *)
(* cell is <<>> (NaN / <NA>) or <<v>>.  A column name is <<head, tail>>,   *)
(* head being the prefix that startswith() tests.                          *)
(***************************************************************************)
EXTENDS Integers, Sequences, FiniteSets, TLC

VARIABLES
    pc,             \* "load" before the load block has run, "serving" after
    raw,            \* the answer of the data source
    df, col_fem, col_masc, col_tasa, col_ipg, years, depts,   \* the module's globals
    filtro_ano, filtro_dep, filtro_genero, active_tab,        \* the callback's inputs
    d,              \* the rows of the callback's local frame d when it returns
    kpis, content   \* what the callback returned

vars == <<pc, raw, df, col_fem, col_masc, col_tasa, col_ipg, years, depts,
          filtro_ano, filtro_dep, filtro_genero, active_tab, d, kpis, content>>

(***************************************************************************)
(* Bounds of the model.                                                    *)
(***************************************************************************)
\* Rows of a fetched table (the families of small tables below).
MaxRows == 2
\* Departments of the tables of the ranking family (more than the 15 kept).
MaxRankDepts == 17
\* Departments chosen at once in the department dropdown.
MaxDepSel == 1

(***************************************************************************)
(* Column names.                                                           *)
(***************************************************************************)
FEM == "matriculacion_fem"
MASC == "matriculacion_masc"
TASA == "tasa"
IPG == "ipg"

ANNO_INF == <<"anno_inf", "">>
DEPARTAMENTO == <<"departamento", "">>
TOTAL_FEM == <<"TOTAL_FEM", "">>
TOTAL_MASC == <<"TOTAL_MASC", "">>
TOTAL == <<"TOTAL", "">>

\* str.startswith on a column name.
startswith(c, prefix) == c[1] = prefix

\* The five age groups: (label, female column, male column).
age_groups ==
    << <<"3y4", <<FEM, "_3y4">>, <<MASC, "_3y4">> >>,
       <<"5", <<FEM, "_5">>, <<MASC, "_5">> >>,
       <<"6a10", <<FEM, "_6a10">>, <<MASC, "_6a10">> >>,
       <<"11a14", <<FEM, "_11a14">>, <<MASC, "_11a14">> >>,
       <<"15y16", <<FEM, "_15y16">>, <<MASC, "_15y16">> >> >>

\* The order in which the source serves its columns (the column order of the
\* frame read_json builds); the derived columns are appended by the load block.
SOURCE_COLUMNS ==
    << ANNO_INF, DEPARTAMENTO,
       <<FEM, "_3y4">>, <<FEM, "_5">>, <<FEM, "_6a10">>, <<FEM, "_11a14">>,
       <<FEM, "_15y16">>,
       <<MASC, "_3y4">>, <<MASC, "_5">>, <<MASC, "_6a10">>, <<MASC, "_11a14">>,
       <<MASC, "_15y16">>,
       <<TASA, "_matriculacion_5_16">>, <<TASA, "_a">>, <<TASA, "_b">>,
       <<TASA, "_c">>,
       <<IPG, "_5_16">>, <<IPG, "_a">> >>

\* Department names in lexicographic order (Python's order on str).
DEPT_NAMES ==
    << "A", "B", "C", "D", "E", "F", "G", "H", "I", "J", "K", "L", "M", "N",
       "O", "P", "Q", "R", "S", "T" >>

DeptPos(name) == CHOOSE i \in 1..Len(DEPT_NAMES) : DEPT_NAMES[i] = name

(***************************************************************************)
(* Sequence helpers.                                                       *)
(***************************************************************************)
Range(s) == {s[i] : i \in 1..Len(s)}

RECURSIVE SumSeq(_)
SumSeq(s) == IF s = <<>> THEN 0 ELSE Head(s) + SumSeq(Tail(s))

Take(s, n) == SubSeq(s, 1, IF n < Len(s) THEN n ELSE Len(s))

\* sorted() of a set of integers.
RECURSIVE SortedInts(_)
SortedInts(S) ==
    IF S = {} THEN <<>>
    ELSE LET m == CHOOSE x \in S : \A y \in S : x <= y
         IN  <<m>> \o SortedInts(S \ {m})

\* sorted() of a set of department names.
SortedDepts(S) == SelectSeq(DEPT_NAMES, LAMBDA name : name \in S)

(***************************************************************************)
(* pd.to_numeric(..., errors="coerce") on one cell.                        *)
(***************************************************************************)
DIGITS == <<"0", "1", "2", "3", "4", "5", "6", "7", "8", "9">>

IsDigit(ch) == ch \in Range(DIGITS)

DigitVal(ch) == (CHOOSE i \in 1..Len(DIGITS) : DIGITS[i] = ch) - 1

AllDigits(s) == Len(s) > 0 /\ \A i \in 1..Len(s) : IsDigit(s[i])

RECURSIVE ParseDigits(_)
ParseDigits(s) ==
    IF s = <<>> THEN 0
    ELSE 10 * ParseDigits(SubSeq(s, 1, Len(s) - 1)) + DigitVal(s[Len(s)])

NaN == <<>>

\* An unsigned decimal text with at most one fractional digit, in tenths.
ParseUnsigned(s) ==
    IF AllDigits(s) THEN <<10 * ParseDigits(s)>>
    ELSE IF /\ Len(s) >= 3
            /\ s[Len(s) - 1] = "."
            /\ AllDigits(SubSeq(s, 1, Len(s) - 2))
            /\ IsDigit(s[Len(s)])
         THEN <<10 * ParseDigits(SubSeq(s, 1, Len(s) - 2)) + DigitVal(s[Len(s)])>>
         ELSE NaN

\* The cell as a number in tenths, or NaN when the text is no number.
ToNumeric(cell) ==
    IF cell = NaN THEN NaN
    ELSE IF Head(cell) = "-"
         THEN LET p == ParseUnsigned(Tail(cell))
              IN  IF p = NaN THEN NaN ELSE <<0 - p[1]>>
         ELSE ParseUnsigned(cell)

\* Series.fillna(0) on one cell.
FillNa1(v) == IF v = NaN THEN 10 ELSE v[1]
FillNa0(v) == IF v = NaN THEN 0 ELSE v[1]

(***************************************************************************)
(* The load block (lines 14-40).  A frame is its column list and its rows, *)
(* each row a function on the columns.                                     *)
(***************************************************************************)
EmptyFrame == [columns |-> <<>>, rows |-> <<>>]

\* DataFrame.empty: no rows or no columns.
IsEmpty(frame) == Len(frame.columns) = 0 \/ Len(frame.rows) = 0

\* The value read_json gives a row for a column: the text, NaN for a missing key.
Cell(row, c) == IF c \in DOMAIN row THEN row[c] ELSE NaN

\* The columns of the frame read_json builds: every key some row carries.
ReadColumns(rows) ==
    SelectSeq(SOURCE_COLUMNS, LAMBDA c : \E i \in 1..Len(rows) : c \in DOMAIN rows[i])

\* [c for c in df.columns if c.startswith(prefix)]
ColumnsWith(cols, prefix) == SelectSeq(cols, LAMBDA c : startswith(c, prefix))

\* pd.to_numeric(df[c], errors="coerce").fillna(0) on one cell.
Coerce(cell) == FillNa0(ToNumeric(cell))

\* astype("Int64") raises on a value that is no whole number.
CastRaises(v) == v /= NaN /\ v[1] % 10 /= 0

\* astype("Int64") on one cell: <NA> stays, a whole float becomes the integer.
ToInt64(v) == IF v = NaN THEN NaN ELSE <<v[1] \div 10>>

\* df[cols].sum(axis=1) on one row.
RowSum(row, cols) == SumSeq([i \in 1..Len(cols) |-> row[cols[i]]])

\* df["TOTAL"] = df["TOTAL_FEM"] + df["TOTAL_MASC"]
RowTotalFemOnly(tfem, tmasc) == tfem
RowTotal(tfem, tmasc) == tfem + tmasc

\* Lines 23-31 on one row.
NormalizeRow(row, cols, cf, cm, ct, ci) ==
    LET numeric == Range(cf) \cup Range(cm) \cup Range(ct) \cup Range(ci)
        base == [c \in Range(cols) |->
                    IF c \in numeric THEN Coerce(Cell(row, c))
                    ELSE IF c = ANNO_INF THEN ToInt64(ToNumeric(Cell(row, c)))
                    ELSE Cell(row, c)]
        tfem == RowSum(base, cf)
        tmasc == RowSum(base, cm)
    IN  (TOTAL_FEM :> tfem) @@ (TOTAL_MASC :> tmasc)
            @@ (TOTAL :> RowTotal(tfem, tmasc)) @@ base

\* What the except branch leaves (lines 37-40); the column lists keep what the
\* try block had bound before it raised.
LoadFailed(cf, cm, ct, ci) ==
    [df |-> EmptyFrame, col_fem |-> cf, col_masc |-> cm, col_tasa |-> ct,
     col_ipg |-> ci, years |-> <<>>, depts |-> <<>>]

\* The whole try/except block on the answer `r` of the data source.
LoadBlock(r) ==
    IF ~r.ok THEN LoadFailed(<<>>, <<>>, <<>>, <<>>)
    ELSE
    LET cols == ReadColumns(r.rows)
        cf == ColumnsWith(cols, FEM)
        cm == ColumnsWith(cols, MASC)
        ct == ColumnsWith(cols, TASA)
        ci == ColumnsWith(cols, IPG)
        hasYear == ANNO_INF \in Range(cols)
        castRaises == hasYear /\ \E i \in 1..Len(r.rows) :
                          CastRaises(ToNumeric(Cell(r.rows[i], ANNO_INF)))
        frame == [columns |-> cols \o <<TOTAL_FEM, TOTAL_MASC, TOTAL>>,
                  rows |-> [i \in 1..Len(r.rows) |->
                               NormalizeRow(r.rows[i], cols, cf, cm, ct, ci)]]
    IN  IF castRaises \/ DEPARTAMENTO \notin Range(cols)
        THEN LoadFailed(cf, cm, ct, ci)
        ELSE [df |-> frame, col_fem |-> cf, col_masc |-> cm, col_tasa |-> ct,
              col_ipg |-> ci,
              years |-> IF hasYear
                        THEN SortedInts({frame.rows[i][ANNO_INF][1] :
                                 i \in {j \in 1..Len(frame.rows) :
                                           frame.rows[j][ANNO_INF] /= NaN}})
                        ELSE <<>>,
              depts |-> SortedDepts({frame.rows[i][DEPARTAMENTO] :
                                        i \in 1..Len(frame.rows)})]

(***************************************************************************)
(* update_dashboard (lines 130-215).                                       *)
(***************************************************************************)
None == <<>>

\* Python truthiness of the year dropdown's value: None and 0 are false.
Truthy(v) == v /= None /\ v[1] /= 0

\* d[d["anno_inf"] == int(filtro_ano)] when filtro_ano is truthy (134-135).
YearFilter(rows, ano) ==
    IF Truthy(ano)
    THEN SelectSeq(rows, LAMBDA r : r[ANNO_INF] = <<ano[1]>>)
    ELSE rows

\* d[d["departamento"].isin(filtro_dep)] when the selection is not empty (136-137).
DeptFilter(rows, dep) ==
    IF dep /= {} /\ Cardinality(dep) > 0
    THEN SelectSeq(rows, LAMBDA r : r[DEPARTAMENTO] \in dep)
    ELSE rows

\* The filtered view d of lines 131-137.
FilteredView(frame, ano, dep) == DeptFilter(YearFilter(frame.rows, ano), dep)

\* d[c].sum()
ColSum(rows, c) == SumSeq([i \in 1..Len(rows) |-> rows[i][c]])

\* int() of a float: truncation toward zero (values are in tenths).
IntRoundHalfUp(x) == (x + 5) \div 10
IntTrunc(x) == IF x >= 0 THEN x \div 10 ELSE 0 - ((0 - x) \div 10)

\* round(n / m, 2) for m > 0, in hundredths.  Python rounds the float n / m to
\* the nearest hundredth, a tie going to the even one when the quotient is
\* exact in binary; the ties the bounds reach (denominators 8, 16, 24) are.
Floor2(n, m) == (100 * n) \div m
Round2(n, m) ==
    LET q == (100 * n) \div m
        r == (100 * n) % m
    IN  IF 2 * r < m THEN q
        ELSE IF 2 * r > m THEN q + 1
        ELSE IF q % 2 = 0 THEN q ELSE q + 1

\* ipg = round((tf/tm), 2) if tm > 0 else 0 (line 141).
ParityIndex(tf, tm) == IF tm > 0 THEN Round2(tf, tm) ELSE 0

\* d.groupby(key)[c].sum() for the keys in `keys` (sorted), as (key, sum) pairs.
GroupSum(rows, key, keys, c) ==
    [i \in 1..Len(keys) |->
        [key |-> keys[i],
         sum |-> ColSum(SelectSeq(rows, LAMBDA r : r[key] = keys[i]), c)]]

\* The groups of d.groupby("departamento"): the departments of the view, sorted.
DeptKeys(rows) == SortedDepts({rows[i][DEPARTAMENTO] : i \in 1..Len(rows)})

\* The groups of d.groupby("anno_inf"): the years of the view, sorted, <NA> dropped.
YearKeys(rows) ==
    LET ys == SortedInts({rows[i][ANNO_INF][1] :
                  i \in {j \in 1..Len(rows) : rows[j][ANNO_INF] /= NaN}})
    IN  [i \in 1..Len(ys) |-> <<ys[i]>>]

\* Series.idxmax(): the label of the first maximal value.
IdxMax(series) ==
    LET i == CHOOSE k \in 1..Len(series) :
                 /\ \A j \in 1..Len(series) : series[j].sum <= series[k].sum
                 /\ \A j \in 1..(k - 1) : series[j].sum < series[k].sum
    IN  series[i].key

\* top_dep (line 142).
TopDepNoSentinel(rows) ==
    IF rows /= <<>>
    THEN IdxMax(GroupSum(rows, DEPARTAMENTO, DeptKeys(rows), TOTAL))
    ELSE ""
TopDep(rows) ==
    IF rows /= <<>>
    THEN IdxMax(GroupSum(rows, DEPARTAMENTO, DeptKeys(rows), TOTAL))
    ELSE "-"

\* The four cards (lines 139-155); a card's value is held as the number shown.
KpiCards(rows) ==
    LET tf == IntTrunc(ColSum(rows, TOTAL_FEM))
        tm == IntTrunc(ColSum(rows, TOTAL_MASC))
    IN  << [titulo |-> "Matricula Femenina", valor |-> tf],
           [titulo |-> "Matricula Masculina", valor |-> tm],
           [titulo |-> "Indice de Paridad", valor |-> ParityIndex(tf, tm)],
           [titulo |-> "Top Departamento", valor |-> TopDep(rows)] >>

Chart(kind, text, data) == [kind |-> kind, text |-> text, data |-> data]

\* Lines 169-179: the yearly trend, or the annotation when there is no year column.
TrendHasYear(cols) == ANNO_INF \in Range(cols)

TabTrendMarkerWhenEmpty(cols, rows) ==
    IF TrendHasYear(cols) /\ YearKeys(rows) /= <<>>
    THEN LET ks == YearKeys(rows)
         IN  Chart("trend", "Evolucion Historica de Matriculas",
                 [i \in 1..Len(ks) |->
                     LET g == SelectSeq(rows, LAMBDA r : r[ANNO_INF] = ks[i])
                     IN  [anno_inf |-> ks[i][1],
                          TOTAL_FEM |-> ColSum(g, TOTAL_FEM),
                          TOTAL_MASC |-> ColSum(g, TOTAL_MASC),
                          TOTAL |-> ColSum(g, TOTAL)]])
    ELSE Chart("annotation", "Sin datos de ano", <<>>)

TabTrend(cols, rows) ==
    IF TrendHasYear(cols)
    THEN LET ks == YearKeys(rows)
         IN  Chart("trend", "Evolucion Historica de Matriculas",
                 [i \in 1..Len(ks) |->
                     LET g == SelectSeq(rows, LAMBDA r : r[ANNO_INF] = ks[i])
                     IN  [anno_inf |-> ks[i][1],
                          TOTAL_FEM |-> ColSum(g, TOTAL_FEM),
                          TOTAL_MASC |-> ColSum(g, TOTAL_MASC),
                          TOTAL |-> ColSum(g, TOTAL)]])
    ELSE Chart("annotation", "Sin datos de ano", <<>>)

\* The departments kept by nlargest (line 182).
TopN == 15

\* A stable insertion sort of (key, sum) pairs by sum, descending or ascending:
\* pairs of equal sum keep their order.
RECURSIVE InsertSorted(_, _, _)
InsertSorted(s, x, desc) ==
    IF s = <<>> THEN <<x>>
    ELSE IF (IF desc THEN x.sum > Head(s).sum ELSE x.sum < Head(s).sum)
         THEN <<x>> \o s
         ELSE <<Head(s)>> \o InsertSorted(Tail(s), x, desc)

RECURSIVE StableSort(_, _)
StableSort(s, desc) ==
    IF s = <<>> THEN <<>>
    ELSE InsertSorted(StableSort(SubSeq(s, 1, Len(s) - 1), desc), s[Len(s)], desc)

\* Series.nlargest(n): the n largest values, descending, the first of equal
\* values kept (keep="first").
NSmallest(series, n) == Take(StableSort(series, FALSE), n)
NLargest(series, n) == Take(StableSort(series, TRUE), n)

\* sort_values("TOTAL", ascending=True) of the kept rows.  Rows of equal TOTAL
\* are left in the order nlargest gave them.
SortAscending(series) == StableSort(series, FALSE)

\* Lines 181-187: the bars of the ranking, bottom to top.
TabDept(rows) ==
    Chart("ranking", "Top 15 Departamentos",
        SortAscending(NLargest(GroupSum(rows, DEPARTAMENTO, DeptKeys(rows), TOTAL),
                               TopN)))

\* The values of the gender radio items (lines 80-84) and of the tabs (98-101).
GENEROS == {"both", "fem", "masc"}
TABS == {"tab_trend", "tab_dept", "tab_age", "tab_corr"}

\* filtro_genero in ["both", "fem"], filtro_genero in ["both", "masc"] (196, 198).
ShowsFemAlways(genero) == genero \in {"both", "fem", "masc"}
ShowsFem(genero) == genero \in {"both", "fem"}
ShowsMasc(genero) == genero \in {"both", "masc"}

\* d[c].sum() if c in d else 0 (line 192).
AgeSum(cols, rows, c) == IF c \in Range(cols) THEN ColSum(rows, c) ELSE 0

\* Lines 189-202: one bar trace per shown gender over the five age groups.
TabAge(cols, rows, genero) ==
    LET grupo == [i \in 1..Len(age_groups) |-> age_groups[i][1]]
        fem == [i \in 1..Len(age_groups) |-> AgeSum(cols, rows, age_groups[i][2])]
        masc == [i \in 1..Len(age_groups) |-> AgeSum(cols, rows, age_groups[i][3])]
    IN  Chart("age", "Distribucion por Grupo de Edad",
            (IF ShowsFem(genero)
             THEN << [name |-> "Femenino", x |-> grupo, y |-> fem] >> ELSE <<>>)
            \o (IF ShowsMasc(genero)
                THEN << [name |-> "Masculino", x |-> grupo, y |-> masc] >> ELSE <<>>))

\* Lines 205-206: the columns of the correlation matrix.
CorrCols(cols, ct, ci) ==
    SelectSeq(<<TOTAL, TOTAL_FEM, TOTAL_MASC>> \o Take(ct, 3) \o Take(ci, 3),
              LAMBDA c : c \in Range(cols))

\* len(cols) > 1 (line 207).
MoreThanThreeCols(cc) == Len(cc) > 3
EnoughCols(cc) == Len(cc) > 1

\* Lines 204-213: the matrix over the columns (held by its column list, a
\* square matrix of that order), or the annotation.
TabCorr(cols, ct, ci) ==
    LET cc == CorrCols(cols, ct, ci)
    IN  IF EnoughCols(cc)
        THEN Chart("corr", "Matriz de Correlacion", cc)
        ELSE Chart("annotation", "Datos insuficientes", <<>>)

\* What update_dashboard returns for an empty frame (line 132).
NoDataKpis == <<>>

\* The pair (kpis, content) update_dashboard returns.
Dashboard(frame, ct, ci, ano, dep, genero, tab) ==
    IF IsEmpty(frame)
    THEN [d |-> frame.rows,
          kpis |-> NoDataKpis,
          content |-> Chart("message", "No hay datos disponibles.", <<>>)]
    ELSE LET rows == FilteredView(frame, ano, dep)
         IN  [d |-> rows,
              kpis |-> KpiCards(rows),
              content |->
                  IF tab = "tab_trend" THEN TabTrend(frame.columns, rows)
                  ELSE IF tab = "tab_dept" THEN TabDept(rows)
                  ELSE IF tab = "tab_age" THEN TabAge(frame.columns, rows, genero)
                  ELSE TabCorr(frame.columns, ct, ci)]

(***************************************************************************)
(* The tables the data source may answer with.  A text is a tuple of       *)
(* characters; <<>> as a year says the row carries no anno_inf key.        *)
(***************************************************************************)
T_2020 == <<"2", "0", "2", "0">>
T_2021 == <<"2", "0", "2", "1">>
T_HALF_YEAR == <<"2", "0", "2", "0", ".", "5">>
T_SD == <<"s", "/", "d">>

F5 == <<FEM, "_5">>
M5 == <<MASC, "_5">>
F3Y4 == <<FEM, "_3y4">>
TASA_A == <<TASA, "_a">>
IPG_A == <<IPG, "_a">>

WithYear(row, y) == IF y = <<>> THEN row ELSE (ANNO_INF :> y) @@ row

Counts(f, m) == (F5 :> f) @@ (M5 :> m)

\* The text of a number below 100.
Text(v) == IF v < 10 THEN <<DIGITS[v + 1]>>
           ELSE <<DIGITS[(v \div 10) + 1], DIGITS[(v % 10) + 1]>>

Row(y, dep, f, m) == WithYear((DEPARTAMENTO :> dep) @@ Counts(f, m), y)

\* Rows that differ in year and department: years 2020, 2021 and 0, a year
\* that is no number, and no year key.
FilterRows ==
    { Row(T_2020, "A", Text(1), Text(2)), Row(T_2020, "B", Text(1), Text(2)),
      Row(T_2021, "A", Text(1), Text(2)), Row(Text(0), "B", Text(1), Text(2)),
      Row(T_SD, "A", Text(1), Text(2)), Row(<<>>, "B", Text(1), Text(2)) }

\* Rows that differ in their counts: zero male counts, quotients that round
\* down, up and on a tie, fractional counts.
KpiRows ==
    { Row(T_2020, "A", Text(0), Text(0)), Row(T_2020, "A", Text(1), Text(3)),
      Row(T_2020, "A", Text(1), Text(8)), Row(T_2020, "B", Text(1), Text(0)),
      Row(T_2020, "B", Text(3), Text(1)),
      Row(T_2020, "B", <<"1", ".", "5">>, <<"0", ".", "5">>) }

\* Rows with a cell that is negative, no number or missing.
NormBase ==
    (ANNO_INF :> T_2020) @@ (DEPARTAMENTO :> "A") @@ (F3Y4 :> Text(2))
        @@ (F5 :> Text(1)) @@ (M5 :> Text(3)) @@ (TASA_A :> Text(7))
        @@ (IPG_A :> Text(1))

Without(row, c) == [k \in (DOMAIN row) \ {c} |-> row[k]]

NormRows ==
    { NormBase,
      (F3Y4 :> <<"-", "1">>) @@ NormBase,
      (M5 :> <<"x">>) @@ NormBase,
      Without(NormBase, M5),
      (TASA_A :> <<"-", "1">>) @@ NormBase,
      (IPG_A :> <<"n", "d">>) @@ NormBase }

\* A table of n departments in reverse name order, the counts following a
\* pattern with ties (p = 3) or without (p = 19), and a second row of the
\* first department.
RankTable(n, a, p) ==
    [i \in 1..(n + 1) |->
        IF i <= n
        THEN (DEPARTAMENTO :> DEPT_NAMES[n + 1 - i])
                 @@ Counts(Text((i * a) % p), Text(0))
        ELSE (DEPARTAMENTO :> DEPT_NAMES[1]) @@ Counts(Text(0), Text(2))]

RankTables ==
    { RankTable(n, c[1], c[2]) :
        n \in (MaxRankDepts - 1)..MaxRankDepts, c \in {<<1, 3>>, <<2, 19>>} }

\* The example of the specification: A/2020 10+5, A/2021 0+0, B/2020 2+8.
ExampleTable ==
    << WithYear((DEPARTAMENTO :> "A") @@ Counts(Text(10), Text(5)), T_2020),
       WithYear((DEPARTAMENTO :> "A") @@ Counts(Text(0), Text(0)), T_2021),
       WithYear((DEPARTAMENTO :> "B") @@ Counts(Text(2), Text(8)), T_2020) >>

\* Tables the load block rejects: no departamento key, a year that is no
\* whole number.
RejectedTables ==
    { << WithYear(Counts(Text(1), Text(2)), T_2020) >>,
      << WithYear((DEPARTAMENTO :> "A") @@ Counts(Text(1), Text(2)), T_HALF_YEAR) >> }

TablesOf(rows) == UNION { [1..n -> rows] : n \in 0..MaxRows }

Loaded(tables) == { [ok |-> TRUE, rows |-> t] : t \in tables }

\* The data source does not answer (read_json raises).
Unreachable == [ok |-> FALSE, rows |-> <<>>]

(***************************************************************************)
(* The state machine.                                                      *)
(***************************************************************************)
NotCalled == Chart("none", "", <<>>)

\* The state before the load block runs, the data source answering with one
\* of `answers`; the controls hold the values of the layout (lines 69-97).
InitOn(answers) ==
    /\ pc = "load"
    /\ raw \in answers
    /\ df = EmptyFrame
    /\ col_fem = <<>> /\ col_masc = <<>> /\ col_tasa = <<>> /\ col_ipg = <<>>
    /\ years = <<>> /\ depts = <<>>
    /\ filtro_ano = None
    /\ filtro_dep = {}
    /\ filtro_genero = "both"
    /\ active_tab = "tab_trend"
    /\ d = <<>>
    /\ kpis = <<>>
    /\ content = NotCalled

\* The module-level load block, run once before the server starts.
load ==
    /\ pc = "load"
    /\ LET res == LoadBlock(raw)
       IN  /\ df' = res.df
           /\ col_fem' = res.col_fem
           /\ col_masc' = res.col_masc
           /\ col_tasa' = res.col_tasa
           /\ col_ipg' = res.col_ipg
           /\ years' = res.years
           /\ depts' = res.depts
    /\ pc' = "serving"
    /\ UNCHANGED <<raw, filtro_ano, filtro_dep, filtro_genero, active_tab, d,
                   kpis, content>>

\* The values the year dropdown offers (lines 69-71): a year of the catalog,
\* or none.
YearChoices == {None} \cup {<<years[i]>> : i \in 1..Len(years)}

\* The selections one click on the department dropdown (lines 74-76) leads
\* to: one department more, one less, or none (the clear button).
DeptChoices ==
    { S \in {{}} \cup {filtro_dep \cup {x} : x \in Range(depts)}
                 \cup {filtro_dep \ {x} : x \in Range(depts)} :
        Cardinality(S) <= MaxDepSel }

\* What one call of the callback does with the values of its four inputs.
Call(ano, dep, genero, tab) ==
    LET res == Dashboard(df, col_tasa, col_ipg, ano, dep, genero, tab)
    IN  /\ filtro_ano' = ano
        /\ filtro_dep' = dep
        /\ filtro_genero' = genero
        /\ active_tab' = tab
        /\ d' = res.d
        /\ kpis' = res.kpis
        /\ content' = res.content

\* One call of the callback: Dash calls it at page load with the values the
\* controls hold, and then on each change of one control.
update_dashboard ==
    /\ pc = "serving"
    /\ \/ \E ano \in YearChoices : Call(ano, filtro_dep, filtro_genero, active_tab)
       \/ \E dep \in DeptChoices : Call(filtro_ano, dep, filtro_genero, active_tab)
       \/ \E genero \in GENEROS : Call(filtro_ano, filtro_dep, genero, active_tab)
       \/ \E tab \in TABS : Call(filtro_ano, filtro_dep, filtro_genero, tab)
    /\ UNCHANGED <<pc, raw, df, col_fem, col_masc, col_tasa, col_ipg, years, depts>>

Next == load \/ update_dashboard

\* Tables whose rows differ in year and department, the example, the tables
\* the load block rejects and the unreachable source.
Init ==
    InitOn({Unreachable}
           \cup Loaded(TablesOf(FilterRows) \cup {ExampleTable} \cup RejectedTables))

Spec == Init /\ [][Next]_vars

\* Tables whose rows differ in their counts.
InitKpi == InitOn(Loaded(TablesOf(KpiRows) \cup {ExampleTable}))

SpecKpi == InitKpi /\ [][Next]_vars

\* Tables with malformed cells.
InitNorm == InitOn({Unreachable} \cup Loaded(TablesOf(NormRows) \cup RejectedTables))

SpecNorm == InitNorm /\ [][Next]_vars

\* Tables with more departments than the ranking keeps.
InitRank == InitOn(Loaded(RankTables))

SpecRank == InitRank /\ [][Next]_vars

(***************************************************************************)
(* Properties.                                                             *)
(***************************************************************************)
Called == content.kind /= "none"

NoData == Chart("message", "No hay datos disponibles.", <<>>)
NoYearMarker == Chart("annotation", "Sin datos de ano", <<>>)
Insufficient == Chart("annotation", "Datos insuficientes", <<>>)

\* The sum of f over the finite index set I.
RECURSIVE SumOver(_, _)
SumOver(f, I) ==
    IF I = {} THEN 0
    ELSE LET i == CHOOSE x \in I : TRUE IN f[i] + SumOver(f, I \ {i})

\* The sum of column c over the rows of the view whose index is in I.
ViewSum(c, I) == SumOver([i \in 1..Len(d) |-> d[i][c]], I)

ViewDepts == {d[i][DEPARTAMENTO] : i \in 1..Len(d)}

DeptTotal(dep) == ViewSum(TOTAL, {i \in 1..Len(d) : d[i][DEPARTAMENTO] = dep})

\* The number a raw cell stands for: its value (tenths), 0 when it is no number.
ValueOrZero(row, c) ==
    LET v == ToNumeric(Cell(row, c)) IN IF v = NaN THEN 0 ELSE v[1]

\* n is x cut to a whole number toward zero (x in tenths).
IsTruncationOf(n, x) ==
    IF x >= 0 THEN 10 * n <= x /\ x < 10 * n + 10
    ELSE x <= 10 * n /\ 10 * n - 10 < x

(* C1: the view the callback computes is the ordered subsequence of the
   records whose year equals the chosen year (when one is chosen) and whose
   department is among the chosen ones (when some are chosen). *)
C1_ViewIsTheFilteredSubsequence ==
    (Called /\ ~IsEmpty(df)) =>
        d = SelectSeq(df.rows, LAMBDA r :
                /\ (filtro_ano = None \/ r[ANNO_INF] = filtro_ano)
                /\ (filtro_dep = {} \/ r[DEPARTAMENTO] \in filtro_dep))

\* The top department card names a department of the view of maximal total.
TopIsMaximal ==
    /\ kpis[4].valor \in ViewDepts
    /\ \A dep \in ViewDepts : DeptTotal(dep) <= DeptTotal(kpis[4].valor)

\* The cards of the example of the specification, no filter chosen.
ExampleCards ==
    (raw.rows = ExampleTable /\ filtro_ano = None /\ filtro_dep = {}) =>
        /\ kpis[1].valor = 12 /\ kpis[2].valor = 13
        /\ kpis[3].valor = 92 /\ kpis[4].valor = "A"

(* C2 as stated: on a view that is not empty the female and male cards are
   the sums of total_female and total_male over the view, and the top
   department has a maximal summed total. *)
C2_CardsAreTheSums ==
    (Called /\ d /= <<>>) =>
        /\ 10 * kpis[1].valor = ViewSum(TOTAL_FEM, 1..Len(d))
        /\ 10 * kpis[2].valor = ViewSum(TOTAL_MASC, 1..Len(d))
        /\ TopIsMaximal
        /\ ExampleCards

(* C2 amended: the female and male cards are the sums cut to a whole number
   toward zero (the sums themselves when they are whole), and the top
   department has a maximal summed total. *)
C2_CardsAreTheTruncatedSums ==
    (Called /\ d /= <<>>) =>
        /\ IsTruncationOf(kpis[1].valor, ViewSum(TOTAL_FEM, 1..Len(d)))
        /\ IsTruncationOf(kpis[2].valor, ViewSum(TOTAL_MASC, 1..Len(d)))
        /\ TopIsMaximal
        /\ ExampleCards

\* A view of two departments whose female sum is not whole.
C2_Witness ==
    /\ Called
    /\ Cardinality(ViewDepts) = 2
    /\ ViewSum(TOTAL_FEM, 1..Len(d)) % 10 /= 0
    /\ kpis[1].valor > 0

(* C3 as stated: when the male sum of the view is 0 the parity card is
   exactly 0 and the call returns; when the male sum is positive the parity
   card is the quotient of the female sum by the male sum, to the nearest
   hundredth. *)
C3_ParityOfTheSums ==
    (Called /\ ~IsEmpty(df)) =>
        LET ipg == kpis[3].valor
            sf == ViewSum(TOTAL_FEM, 1..Len(d))
            sm == ViewSum(TOTAL_MASC, 1..Len(d))
        IN  /\ sm = 0 => ipg = 0
            /\ sm > 0 => (2 * (100 * sf - ipg * sm) <= sm
                          /\ 0 - sm <= 2 * (100 * sf - ipg * sm))

(* C3 amended: when the male sum of the view is 0 the parity card is exactly
   0, whatever the female sum; the card is the quotient of the female card
   by the male card (the sums cut to whole numbers), to the nearest
   hundredth, when the male card is positive, and 0 when it is not; it is
   the quotient of the two sums when they are whole. *)
C3_ParityIndex ==
    (Called /\ ~IsEmpty(df)) =>
        LET tf == kpis[1].valor
            tm == kpis[2].valor
            ipg == kpis[3].valor
            gap == 100 * tf - ipg * tm
            sf == ViewSum(TOTAL_FEM, 1..Len(d))
            sm == ViewSum(TOTAL_MASC, 1..Len(d))
        IN  /\ sm = 0 => ipg = 0
            /\ tm <= 0 => ipg = 0
            /\ tm > 0 => (2 * gap <= tm /\ 0 - tm <= 2 * gap)
            /\ (sm > 0 /\ sm % 10 = 0 /\ sf % 10 = 0) =>
                   (2 * (100 * sf - ipg * sm) <= sm /\ 0 - sm <= 2 * (100 * sf - ipg * sm))

\* A view with female but no male enrollment.
C3_Witness ==
    /\ Called
    /\ d /= <<>>
    /\ ViewSum(TOTAL_MASC, 1..Len(d)) = 0
    /\ ViewSum(TOTAL_FEM, 1..Len(d)) > 0
    /\ kpis[3].valor = 0

\* The bars of the ranking.
Bars == content.data

(* C4: the ranking holds at most 15 departments with their summed totals,
   ascending by total, and no department of the view left out has a larger
   total than one that is shown. *)
C4_Ranking ==
    (content.kind = "ranking") =>
        LET shown == {Bars[i].key : i \in 1..Len(Bars)}
        IN  /\ Len(Bars) <= 15
            /\ Len(Bars) = Cardinality(shown)
            /\ shown \subseteq ViewDepts
            /\ Cardinality(ViewDepts) <= 15 => shown = ViewDepts
            /\ Cardinality(ViewDepts) > 15 => Len(Bars) = 15
            /\ \A i \in 1..Len(Bars) : Bars[i].sum = DeptTotal(Bars[i].key)
            /\ \A i, j \in 1..Len(Bars) : i < j => Bars[i].sum <= Bars[j].sum
            /\ \A dep \in ViewDepts \ shown : \A i \in 1..Len(Bars) :
                   DeptTotal(dep) <= Bars[i].sum

\* A view of more than 15 departments, ranked.
C4_Witness ==
    /\ content.kind = "ranking"
    /\ Cardinality(ViewDepts) > 15
    /\ Len(Bars) = 15
    /\ Bars[1].sum < Bars[15].sum

(* C5: the age chart holds exactly the series of the chosen gender (fem:
   the female one, masc: the male one, both: the two), and each series has
   one value for each of the 5 age groups, the sum of its column over the
   view (0 when the table has no such column). *)
C5_AgeSeries ==
    (content.kind = "age") =>
        LET traces == content.data
            column(t, g) == IF t.name = "Femenino" THEN age_groups[g][2]
                            ELSE age_groups[g][3]
        IN  /\ [i \in 1..Len(traces) |-> traces[i].name]
                 = (IF filtro_genero = "both" THEN <<"Femenino", "Masculino">>
                    ELSE IF filtro_genero = "fem" THEN <<"Femenino">>
                    ELSE <<"Masculino">>)
            /\ \A i \in 1..Len(traces) :
                /\ traces[i].x = <<"3y4", "5", "6a10", "11a14", "15y16">>
                /\ Len(traces[i].y) = 5
                /\ \A g \in 1..5 :
                       traces[i].y[g] =
                           IF column(traces[i], g) \in Range(df.columns)
                           THEN ViewSum(column(traces[i], g), 1..Len(d))
                           ELSE 0

\* The male series alone, over a view with male enrollment.
C5_Witness ==
    /\ content.kind = "age"
    /\ filtro_genero = "masc"
    /\ Len(content.data) = 1
    /\ content.data[1].name = "Masculino"
    /\ content.data[1].y[2] > 0

\* The columns the correlation matrix may use that the frame has.
UsableCorrCols ==
    ({TOTAL, TOTAL_FEM, TOTAL_MASC} \cup Range(Take(col_tasa, 3))
        \cup Range(Take(col_ipg, 3))) \cap Range(df.columns)

(* C6 as stated: a correlation request with fewer than 2 usable columns
   returns the "insufficient data" annotation, and a matrix is returned only
   over at least 2 columns. *)
C6_FewColumnsGiveTheSentinel ==
    (Called /\ active_tab = "tab_corr") =>
        /\ Cardinality(UsableCorrCols) < 2 => content = Insufficient
        /\ content.kind = "corr" => Len(content.data) >= 2

(* C6 amended: a correlation request on a loaded table returns the matrix
   over the usable columns, which always include the three totals, so it is
   never of order 1 or 0 and the "insufficient data" annotation is never
   returned; on an empty dataset the request returns the "no data available"
   message and no matrix. *)
C6_MatrixOrNoData ==
    (Called /\ active_tab = "tab_corr") =>
        IF IsEmpty(df)
        THEN content = NoData /\ Cardinality(UsableCorrCols) < 2
        ELSE /\ content.kind = "corr"
             /\ Range(content.data) = UsableCorrCols
             /\ Len(content.data) = Cardinality(UsableCorrCols)
             /\ {TOTAL, TOTAL_FEM, TOTAL_MASC} \subseteq UsableCorrCols
             /\ Len(content.data) >= 3

\* A correlation matrix over a loaded table.
C6_Witness ==
    /\ active_tab = "tab_corr"
    /\ content.kind = "corr"
    /\ Len(content.data) = Cardinality(UsableCorrCols)

(* C7: every normalized record has total = total_female + total_male, the
   two being the sums of its female and male age-group counts, a cell that
   is no number (or a missing one) counting 0. *)
C7_TotalIsFemPlusMasc ==
    \A i \in 1..Len(df.rows) :
        LET fem == SumOver([g \in 1..5 |-> ValueOrZero(raw.rows[i], age_groups[g][2])],
                           1..5)
            masc == SumOver([g \in 1..5 |-> ValueOrZero(raw.rows[i], age_groups[g][3])],
                            1..5)
        IN  /\ df.rows[i][TOTAL_FEM] = fem
            /\ df.rows[i][TOTAL_MASC] = masc
            /\ df.rows[i][TOTAL] = fem + masc

\* A normalized record with a male cell that is no number and a total above 0.
C7_Witness ==
    /\ pc = "serving"
    /\ \E i \in 1..Len(df.rows) :
        /\ M5 \in DOMAIN raw.rows[i]
        /\ ToNumeric(raw.rows[i][M5]) = NaN
        /\ df.rows[i][TOTAL_MASC] = 0
        /\ df.rows[i][TOTAL] > 0

\* The view holds no year: no year column, or no row with a year.
NoYearInView ==
    \/ ANNO_INF \notin Range(df.columns)
    \/ \A i \in 1..Len(d) : d[i][ANNO_INF] = NaN

(* C8 as stated: a trend request over a view in which no record carries a
   year (no year column, no year that is a number, or no record) returns the
   "no year data" annotation. *)
C8_NoYearGivesTheMarker ==
    (Called /\ active_tab = "tab_trend" /\ NoYearInView) => content = NoYearMarker

(* C8 amended: a trend request on a loaded table returns the "no year data"
   annotation exactly when the table has no year column; when it has one,
   the request returns the series of the years of the view, ascending, which
   is empty when no record of the view carries a year; on an empty dataset
   it returns the "no data available" message. *)
C8_MarkerOnlyWithoutYearColumn ==
    (Called /\ active_tab = "tab_trend") =>
        IF IsEmpty(df) THEN content = NoData
        ELSE IF ANNO_INF \notin Range(df.columns) THEN content = NoYearMarker
        ELSE LET ys == {d[i][ANNO_INF][1] :
                           i \in {j \in 1..Len(d) : d[j][ANNO_INF] /= NaN}}
                 pts == content.data
             IN  /\ content.kind = "trend"
                 /\ {pts[i].anno_inf : i \in 1..Len(pts)} = ys
                 /\ Len(pts) = Cardinality(ys)
                 /\ \A i, j \in 1..Len(pts) : i < j => pts[i].anno_inf < pts[j].anno_inf
                 /\ NoYearInView => pts = <<>>

\* The annotation, returned for a loaded table without a year column.
C8_Witness ==
    /\ active_tab = "tab_trend"
    /\ ~IsEmpty(df)
    /\ content = NoYearMarker

\* The four cards of an empty view.
EmptyViewCards ==
    /\ Len(kpis) = 4
    /\ kpis[1].valor = 0 /\ kpis[2].valor = 0 /\ kpis[3].valor = 0
    /\ kpis[4].valor = "-"

(* C9 as stated: a call whose view is empty, the filters matching no record
   or the dataset being empty, returns the four cards 0, 0, 0 and "-". *)
C9_EmptyViewGivesFourCards ==
    (Called /\ d = <<>>) => EmptyViewCards

(* C9 amended: a call whose filters match no record of a loaded table
   returns, for each tab, the four cards 0, 0, 0 and "-" and the chart of
   the tab; a call on an empty dataset returns no card at all and the "no
   data available" message. *)
C9_EmptyViewCardsOrNoData ==
    (Called /\ d = <<>>) =>
        IF IsEmpty(df) THEN kpis = <<>> /\ content = NoData
        ELSE /\ EmptyViewCards
             /\ active_tab = "tab_trend" => content.kind \in {"trend", "annotation"}
             /\ active_tab = "tab_dept" => content.kind = "ranking" /\ content.data = <<>>
             /\ active_tab = "tab_age" => content.kind = "age"
             /\ active_tab = "tab_corr" => content.kind = "corr"

\* Filters that match no record of a loaded table.
C9_Witness ==
    /\ Called
    /\ ~IsEmpty(df)
    /\ d = <<>>
    /\ filtro_ano /= None
    /\ filtro_dep /= {}
    /\ Len(kpis) = 4

\* The numeric columns of the frame: counts, rates, parity indexes, totals.
NumericColumns ==
    Range(col_fem) \cup Range(col_masc) \cup Range(col_tasa) \cup Range(col_ipg)
        \cup ({TOTAL_FEM, TOTAL_MASC, TOTAL} \cap Range(df.columns))

(* C10 as stated: every numeric field of every normalized record is a
   number that is not negative, and every record is kept. *)
C10_NumericFieldsNonNegative ==
    (pc = "serving" /\ ~IsEmpty(df)) =>
        /\ Len(df.rows) = Len(raw.rows)
        /\ \A i \in 1..Len(df.rows) : \A c \in NumericColumns :
               df.rows[i][c] \in Int /\ df.rows[i][c] >= 0

(* C10 amended: every count, rate and parity index of every normalized
   record is a number, never null: the value of the raw text when it is a
   number, a negative one staying negative, and 0 when it is no number or is
   missing; the totals are the sums of the counts, so they are not negative
   when no count is; every record of the table is kept. *)
C10_NumericFieldsAreNumbers ==
    (pc = "serving" /\ ~IsEmpty(df)) =>
        /\ Len(df.rows) = Len(raw.rows)
        /\ \A i \in 1..Len(df.rows) :
            /\ \A c \in NumericColumns \ {TOTAL_FEM, TOTAL_MASC, TOTAL} :
                /\ df.rows[i][c] \in Int
                /\ df.rows[i][c] = ValueOrZero(raw.rows[i], c)
            /\ \A c \in {TOTAL_FEM, TOTAL_MASC, TOTAL} : df.rows[i][c] \in Int
            /\ (\A c \in Range(col_fem) \cup Range(col_masc) : df.rows[i][c] >= 0)
                   => \A c \in {TOTAL_FEM, TOTAL_MASC, TOTAL} : df.rows[i][c] >= 0

\* A kept record with a cell that is no number, read as 0, in a table that
\* also holds a negative count.
C10_Witness ==
    /\ pc = "serving"
    /\ \E i \in 1..Len(df.rows) : \E c \in DOMAIN raw.rows[i] :
        /\ c \in NumericColumns
        /\ ToNumeric(raw.rows[i][c]) = NaN
        /\ df.rows[i][c] = 0
    /\ \E i \in 1..Len(df.rows) : \E c \in NumericColumns : df.rows[i][c] < 0

====
